---------------------------- MODULE Spec2Model ----------------------------
(***************************************************************************)
(* The capture / speech / voice-command coordination loop of SightSound AI *)
(* (App component, VoiceSettings component, vision service), as a state    *)
(* machine.  One action per callback of the event loop; every action       *)
(* includes the React re-render and the effect clean-up/re-run that the    *)
(* state updates of the callback cause.                                    *)
(***************************************************************************)
EXTENDS Integers, Sequences, FiniteSets, TLC

(***************************************************************************)
(* Program constants                                                       *)
(***************************************************************************)
interval == 10          \* countdown start value of the scheduler effect
TickMs == 1000          \* period of window.setInterval
GraceMs == 2000         \* delay of the timer set by onend of a command utterance
StopMs == 500           \* delay of the timer set by stopSpeaking

\* Time advances in units of the smallest delay of the program.
UnitMs == StopMs
TickPeriod == TickMs \div UnitMs
GraceDelay == GraceMs \div UnitMs
StopDelay == StopMs \div UnitMs

(***************************************************************************)
(* Bounds of the model                                                     *)
(***************************************************************************)
MaxInFlight == 2        \* analysis calls awaiting the backend at one time
MaxPendingEnds == 1     \* end events of cancelled utterances not yet delivered
MaxStopTimers == 1      \* pending timers created by stopSpeaking
MaxUserActions == 1     \* voice commands and button presses in one run
MaxToggles == 3         \* language toggles in one run of the session model
MaxHazards == 2         \* hazards in one answer of the backend
MaxModeSwitches == 2    \* tab clicks in one run of the mode model
MaxKeys == 3            \* configured API keys
MaxResponseLen == 4     \* fragments in one hazard answer of the backend
MaxSettingsChanges == 1
MaxPageLoads == 2         \* page loads of one browser, with concurrent analytics calls
MaxCalls == 3             \* analytics calls of the application per page load
MaxSessions == 62         \* page loads of one browser, one analytics call each
MaxFaults == 1            \* page loads without analytics support or with full storage \* changes in the voice settings panel in one run of the voice model

Languages == {"en", "hi", "ml"}
Modes == {"scene", "navigation"}
Frames == {"f1", "f2"}

(***************************************************************************)
(* Strings are sequences of tokens.  A data URL is the sequence of its     *)
(* comma-separated segments, so that split(',') is the identity on the     *)
(* representation; null is the empty sequence (split never returns it).    *)
(***************************************************************************)
NullShot == <<>>
MarkerSegments == {"data:image/jpeg;base64"}
Screenshots ==
    { NullShot,
      <<"data:image/jpeg;base64", "/9j/4AAQ">>,
      <<"data:image/jpeg", "/9j/4AAQ">>,
      <<"data:", "">>,
      <<"data:image/jpeg;base64", "">>,
      <<"data:image/jpeg;base64">> }

\* base64Image.includes('base64')
IncludesBase64(s) == \E i \in 1..Len(s) : s[i] \in MarkerSegments

\* The two validations at the head of analyzeImage / analyzeForNavigation:
\* TRUE when the call throws before any request is sent.
InvalidImage(s) ==
    \/ s = NullShot
    \/ ~IncludesBase64(s)
    \/ Len(s) < 2
    \/ s[2] = ""

(***************************************************************************)
(* translations[language]                                                  *)
(***************************************************************************)
errorAnalyzing(l) == <<"errorAnalyzing", l>>
noHazards(l) == <<"noHazards", l>>
voiceSettingsUpdated(l) == <<"voiceSettingsUpdated", l>>
testMessage(l) == <<"testMessage", l>>

\* hazards.join(', '); a hazard is a string, that is a sequence of fragments
RECURSIVE JoinComma(_)
JoinComma(hz) ==
    IF hz = <<>> THEN <<>>
    ELSE IF Len(hz) = 1 THEN Head(hz)
    ELSE Head(hz) \o <<", ">> \o JoinComma(Tail(hz))

detectedHazards(l, hz) == <<"detectedHazards", l>> \o JoinComma(hz)

switchedToMode(l, m) ==
    IF l = "en" THEN <<"Switched to ", m, " mode">>
    ELSE <<(IF m = "scene" THEN "sceneMode" ELSE "navigationMode"), l, "switched">>

(***************************************************************************)
(* The vision backend, seen from handleCapture: the hazard answer and the  *)
(* text answer for a frame.                                                *)
(***************************************************************************)
HazardsOfFrame(f) == IF f = "f1" THEN <<>> ELSE << <<"stairs">> >>
DescriptionOfFrame(f) == IF f = "f1" THEN "desc.f1" ELSE "desc.f2"
NavigationOfFrame(f) == IF f = "f1" THEN "nav.f1" ELSE "nav.f2"

\* hazardTranslations, lines 94-115, in the order of the object literal; the
\* phrase of a term in a language is written as one fragment.
HazardTerms ==
    <<"stairs", "step", "uneven surface", "obstacle", "moving object", "vehicle",
      "person", "crowd", "water", "hole", "construction", "wet floor", "traffic",
      "door", "wall", "furniture", "glass", "sharp object", "electric", "hot surface">>
MlPhrases ==
    <<"stairs.ml", "step.ml", "uneven surface.ml", "obstacle.ml", "moving object.ml",
      "vehicle.ml", "person.ml", "crowd.ml", "water.ml", "hole.ml", "construction.ml",
      "wet floor.ml", "traffic.ml", "door.ml", "wall.ml", "furniture.ml", "glass.ml",
      "sharp object.ml", "electric.ml", "hot surface.ml">>
HiPhrases ==
    <<"stairs.hi", "step.hi", "uneven surface.hi", "obstacle.hi", "moving object.hi",
      "vehicle.hi", "person.hi", "crowd.hi", "water.hi", "hole.hi", "construction.hi",
      "wet floor.hi", "traffic.hi", "door.hi", "wall.hi", "furniture.hi", "glass.hi",
      "sharp object.hi", "electric.hi", "hot surface.hi">>

\* translations[language as 'ml' | 'hi'] of entry k; "" stands for undefined
PhraseOf(k, l) ==
    IF l = "ml" THEN <<MlPhrases[k]>> ELSE IF l = "hi" THEN <<HiPhrases[k]>> ELSE <<>>

\* toLowerCase on the fragments that carry capitals
LowerFragment(x) ==
    CASE x = "Stairs" -> "stairs" [] x = "STAIRS" -> "stairs" [] x = "Wet Floor" -> "wet floor"
      [] x = "Glass" -> "glass" [] x = "NONE" -> "none" [] x = "Quota" -> "quota"
      [] OTHER -> x
ToLowerCase(h) == [i \in 1..Len(h) |-> LowerFragment(h[i])]

\* lowerHazard.includes(eng): a term occurs in a string as one of its fragments
Includes(h, term) == \E i \in 1..Len(h) : h[i] = term

FirstTermOnly(h) == IF Includes(ToLowerCase(h), HazardTerms[1]) THEN {1} ELSE {}

\* the entries the loop of lines 119-123 would match
MatchingEntries(h) == {k \in 1..Len(HazardTerms) : Includes(ToLowerCase(h), HazardTerms[k])}

\* lines 117-125: the first matching entry decides
TranslateHazard(h, l) ==
    IF MatchingEntries(h) # {}
    THEN LET k == CHOOSE m \in MatchingEntries(h) : \A j \in MatchingEntries(h) : m <= j
         IN  IF PhraseOf(k, l) # <<>> THEN PhraseOf(k, l) ELSE h
    ELSE h
translateHazardsToLanguage(hz, l) == [i \in 1..Len(hz) |-> TranslateHazard(hz[i], l)]

\* line 171 / 216: hazards: language === 'en' ? hazards : translate...
ReturnedHazards(hz, l) == IF l = "en" THEN hz ELSE translateHazardsToLanguage(hz, l)
ResultHazards(f, l) == ReturnedHazards(HazardsOfFrame(f), l)

NoAnalysis == [set |-> FALSE, objects |-> "", description |-> "", hazards |-> <<>>, navigation |-> ""]

VARIABLES
    supported,        \* browserSupportsSpeechRecognition /\ isMicrophoneAvailable
    isCapturing, isSpeaking, isPaused, mode, language,
    analysis,         \* the current AnalysisResult (NoAnalysis = null)
    inflight,         \* handleCapture invocations suspended at their await
    timeLeft,         \* countdown of the scheduler effect
    tickLeft,         \* time units until the interval callback runs next
    speechRef,        \* TRUE iff speechRef.current is an utterance
    pauseTimeoutRef,  \* timer id held by pauseTimeoutRef.current, 0 = null
    timers,           \* pending setTimeout callbacks
    speechQueue,      \* the utterance queue of window.speechSynthesis
    pendingEnds,      \* end events of cancelled utterances still to be delivered
    storedLanguage,   \* localStorage item "language" ("none" = absent)
    settingsLanguage, \* the language state of the VoiceSettings component
    userActions,      \* voice commands and button presses so far
    sinceFull,        \* interval callbacks run since the countdown was last full
    languageTrail,    \* the languages of this session, oldest first
    analytics,        \* what becomes of a call of the analytics module
    speechSettings,   \* localStorage items speechRate, speechPitch, speechVoice
    lastEvent         \* what the last callback did

vars == <<supported, isCapturing, isSpeaking, isPaused, mode, language, analysis,
          inflight, timeLeft, tickLeft, speechRef, pauseTimeoutRef, timers,
          speechQueue, pendingEnds, storedLanguage, settingsLanguage, userActions, sinceFull,
          languageTrail, analytics, speechSettings, lastEvent>>

(***************************************************************************)
(* window.speechSynthesis                                                  *)
(***************************************************************************)
\* An utterance: src = who created it ("analysis", "command", "settings": by
\* speak, so it carries onstart/onend; "test": by updateVoiceSettings, without
\* handlers), cmd = the isCommand argument of speak, started = it is playing.
Utterance(src, cmd, settings) ==
    [src |-> src, cmd |-> cmd, started |-> FALSE, settings |-> settings]
HasHandlers(u) == u.src # "test"

\* What the last callback did: op names the callback and its branch, text and
\* cmd are the arguments it handed to speak (text <<>> when it did not speak),
\* n is the ordinal of an interval callback since the countdown was last full,
\* commanded tells whether a voice command was recognised while the analysis
\* that returned was in flight.
Event(op) == [op |-> op, text |-> <<>>, cmd |-> FALSE, n |-> 0, commanded |-> FALSE]
Spoke(op, text, cmd) == [Event(op) EXCEPT !.text = text, !.cmd = cmd]

PendingTotal(pe) == pe[TRUE] + pe[FALSE]

\* speechSynthesis.cancel(): the queue is emptied.  Whether the utterance that
\* was playing still receives its end event is left to the platform (the
\* handlers of speak listen to end only, not to error).
CancelOutcomes(q, pe) ==
    IF q # <<>> /\ Head(q).started /\ HasHandlers(Head(q))
    THEN {[q |-> <<>>, pe |-> pe]} \cup
         (IF PendingTotal(pe) < MaxPendingEnds
          THEN {[q |-> <<>>, pe |-> [pe EXCEPT ![Head(q).cmd] = @ + 1]]}
          ELSE {})
    ELSE {[q |-> <<>>, pe |-> pe]}

\* The rate, pitch and voice one session can persist, taken together.
SettingsValues == {"slow", "fast"}

SavedSettingsIgnored(stored) == "default"

\* speak, lines 376-392: the rate, pitch and voice of the new utterance are
\* read from localStorage (stored); "1" and the default voice when absent
SavedSettings(stored) == IF stored = "unset" THEN "default" ELSE stored

\* speak(text, isCommand), lines 371-374 and 438: cancel when speechRef.current
\* is set, then submit the new utterance with the settings stored now.
SpeakOutcomes(q, pe, ref, src, cmd, stored) ==
    LET base == IF ref THEN CancelOutcomes(q, pe) ELSE {[q |-> q, pe |-> pe]}
    IN  {[q |-> Append(o.q, Utterance(src, cmd, SavedSettings(stored))), pe |-> o.pe] :
            o \in base}

\* A callback calls speak(text, isCommand) on the channel state (q, pe).
SpeakFrom(q, pe, src, ev, stored) ==
    /\ \E o \in SpeakOutcomes(q, pe, speechRef, src, ev.cmd, stored) :
            /\ speechQueue' = o.q
            /\ pendingEnds' = o.pe
    /\ speechRef' = TRUE
    /\ lastEvent' = ev

Speak(src, ev) == SpeakFrom(speechQueue, pendingEnds, src, ev, speechSettings)

\* speechSynthesis.speaking
Speaking(q) == q # <<>> /\ Head(q).started

(***************************************************************************)
(* Timers                                                                  *)
(***************************************************************************)
TimerIds(tm) == {t.id : t \in tm}
ClearTimeout(tm, id) == {t \in tm : t.id # id}
NewTimerId(tm, ref) ==
    CHOOSE i \in 1..(Cardinality(tm) + 2) :
        /\ i \notin TimerIds(tm) \cup {ref}
        /\ \A j \in 1..(i - 1) : j \in TimerIds(tm) \cup {ref}
StopTimers(tm) == {t \in tm : t.kind = "stop"}

(***************************************************************************)
(* The scheduler effect, lines 333-359.  Its dependencies are handleCapture *)
(* (re-created when isPaused, isSpeaking, mode, language or t change),      *)
(* isPaused and isSpeaking.  When one of them changed in the callback, the  *)
(* clean-up clears the interval and the timer pauseTimeoutRef.current names,*)
(* and the effect starts a new interval with a full countdown.              *)
(***************************************************************************)
DepsChangedFlagsOnly ==
    \/ isPaused' # isPaused
    \/ isSpeaking' # isSpeaking

DepsChanged ==
    \/ isPaused' # isPaused
    \/ isSpeaking' # isSpeaking
    \/ mode' # mode
    \/ language' # language

EffectCleanup(tm, ref) == IF ref # 0 THEN ClearTimeout(tm, ref) ELSE tm

\* tm: the timers as the callback left them.
SchedulerEffect(tm) ==
    /\ sinceFull' = IF DepsChanged THEN 0 ELSE sinceFull
    /\ timeLeft' = IF DepsChanged THEN interval ELSE timeLeft
    /\ tickLeft' = IF DepsChanged THEN TickPeriod ELSE tickLeft
    /\ timers' = IF DepsChanged THEN EffectCleanup(tm, pauseTimeoutRef') ELSE tm

(***************************************************************************)
(* Initial state: the first render and its mount effects.                  *)
(***************************************************************************)
SavedLanguages == {"none"}

StartupLanguageDefault(saved) == "en"

\* lines 81-87: a saved language of the three supported ones is adopted
StartupLanguage(saved) == IF saved \in {"en", "ml", "hi"} THEN saved ELSE "en"

\* firebase.ts lines 11-36, 191-269 and 302: analytics is not configured (or
\* not supported), or logEvent delivers the event, or logEvent throws
AnalyticsStatuses == {"unconfigured", "working", "failing"}

CoordinatorStart(saved) ==
    /\ supported \in BOOLEAN
    /\ storedLanguage \in saved
    /\ language = StartupLanguage(storedLanguage)
    /\ settingsLanguage = StartupLanguage(storedLanguage)
    /\ isCapturing = FALSE
    /\ isSpeaking = FALSE
    /\ isPaused = FALSE
    /\ mode = "scene"
    /\ analysis = NoAnalysis
    /\ inflight = <<>>
    /\ timeLeft = interval
    /\ tickLeft = TickPeriod
    /\ speechRef = FALSE
    /\ pauseTimeoutRef = 0
    /\ timers = {}
    /\ speechQueue = <<>>
    /\ pendingEnds = [c \in BOOLEAN |-> 0]
    /\ userActions = 0
    /\ sinceFull = 0
    /\ languageTrail = <<StartupLanguage(storedLanguage)>>

InitState(saved) ==
    /\ CoordinatorStart(saved)
    /\ analytics = "working"
    /\ speechSettings = "unset"

InitFrom(saved) == InitState(saved) /\ lastEvent = Event("init")

Init == InitFrom(SavedLanguages)

(***************************************************************************)
(* Passage of time: one unit, when no timer callback is due.  The end      *)
(* event of an interrupted utterance is dispatched right after cancel(),   *)
(* before a time unit has passed.                                          *)
(***************************************************************************)
Advance ==
    /\ tickLeft > 0
    /\ \A t \in timers : t.left > 0
    /\ PendingTotal(pendingEnds) = 0
    /\ tickLeft' = tickLeft - 1
    /\ timers' = {[t EXCEPT !.left = @ - 1] : t \in timers}
    /\ lastEvent' = Event("advance")
    /\ UNCHANGED <<userActions, sinceFull, languageTrail, supported, isCapturing, isSpeaking, isPaused, mode, language,
                   analysis, inflight, timeLeft, speechRef, pauseTimeoutRef,
                   speechQueue, pendingEnds, storedLanguage, settingsLanguage, analytics, speechSettings>>

(***************************************************************************)
(* handleCapture, lines 226-331                                            *)
(***************************************************************************)
\* Values no callback changes.
Fixed == <<supported, settingsLanguage, analytics>>

\* A voice command or a button press: the recognizer listens and the buttons
\* are rendered only on the main screen (lines 361-369, 469-497).
UserAction ==
    /\ supported
    /\ userActions < MaxUserActions
    /\ userActions' = userActions + 1

\* line 227, evaluated on the values the callback closed over
CaptureGuard(webcam, paused, speaking) == webcam /\ ~paused /\ ~speaking

\* The closure of one invocation: the state values of the render that
\* created the callback.  Which frame the screenshot shows is known to the
\* model when the backend answers (AnalysisResolve).
Closure ==
    [mode |-> mode, language |-> language, isPaused |-> isPaused,
     isSpeaking |-> isSpeaking, commanded |-> FALSE]

\* A voice command is recognised: the calls in flight are marked.
Commanded(calls) == [j \in 1..Len(calls) |-> [calls[j] EXCEPT !.commanded = TRUE]]

\* lines 276 and 306: the guard before auto-speaking reads the closure
SpeakGuard(c) == ~c.isPaused /\ ~c.isSpeaking

ResultTextBare(l, hz, body) == <<body>>

\* lines 277-282 and 307-312
ResultText(l, hz, body) ==
    IF Len(hz) > 0 THEN detectedHazards(l, hz) \o <<". ", body>> ELSE <<body>>

KeepAnalysis(prev, c, f) == prev

\* lines 254-259 and 288: what setAnalysis stores
NextAnalysis(prev, c, f) ==
    IF c.mode = "navigation"
    THEN [set |-> TRUE, objects |-> prev.objects, description |-> prev.description,
          hazards |-> ResultHazards(f, c.language),
          navigation |-> NavigationOfFrame(f)]
    ELSE [set |-> TRUE, objects |-> DescriptionOfFrame(f),
          description |-> DescriptionOfFrame(f),
          hazards |-> ResultHazards(f, c.language),
          navigation |-> ""]

ResultBody(c, f) ==
    IF c.mode = "navigation" THEN NavigationOfFrame(f) ELSE DescriptionOfFrame(f)

\* The synchronous part of handleCapture, called by the interval callback.
HandleCapture ==
    IF ~CaptureGuard(supported, isPaused, isSpeaking)
    THEN /\ lastEvent' = [Event("capture_guarded") EXCEPT !.n = sinceFull + 1]
         /\ UNCHANGED <<isCapturing, inflight, speechRef, speechQueue, pendingEnds>>
    ELSE \E shot \in Screenshots :
            IF shot = NullShot
            THEN \* lines 234-238, then finally
                 /\ isCapturing' = FALSE
                 /\ lastEvent' = [Event("capture_noimage") EXCEPT !.n = sinceFull + 1]
                 /\ UNCHANGED <<inflight, speechRef, speechQueue, pendingEnds>>
            ELSE IF InvalidImage(shot)
            THEN \* the analyze call throws at once: catch, then finally
                 /\ Speak("analysis", [Spoke("capture_invalid", errorAnalyzing(language), TRUE)
                                       EXCEPT !.n = sinceFull + 1])
                 /\ isCapturing' = FALSE
                 /\ UNCHANGED inflight
            ELSE /\ Len(inflight) < MaxInFlight
                 /\ inflight' = Append(inflight, Closure)
                 /\ isCapturing' = TRUE
                 /\ lastEvent' = [Event("capture_sent") EXCEPT !.n = sinceFull + 1]
                 /\ UNCHANGED <<speechRef, speechQueue, pendingEnds>>

(***************************************************************************)
(* The interval callback of the scheduler effect, lines 337-349            *)
(***************************************************************************)
TickDefersPausedOnly(paused, speaking) == paused

\* line 338
TickDefers(paused, speaking) == paused \/ speaking

CountdownExpiredEarly(left) == left < interval

\* line 343
CountdownExpired(left) == left <= 0

Tick ==
    /\ tickLeft = 0
    /\ tickLeft' = TickPeriod
    /\ IF TickDefers(isPaused, isSpeaking)
       THEN /\ timeLeft' = interval
            /\ sinceFull' = 0
            /\ lastEvent' = [Event("tick_defer") EXCEPT !.n = sinceFull + 1]
            /\ UNCHANGED <<isCapturing, inflight, speechRef, speechQueue, pendingEnds>>
       ELSE IF CountdownExpired(timeLeft)
       THEN /\ HandleCapture
            /\ timeLeft' = interval
            /\ sinceFull' = 0
       ELSE /\ timeLeft' = timeLeft - 1
            /\ sinceFull' = sinceFull + 1
            /\ lastEvent' = [Event("tick_dec") EXCEPT !.n = sinceFull + 1]
            /\ UNCHANGED <<isCapturing, inflight, speechRef, speechQueue, pendingEnds>>
    /\ UNCHANGED <<Fixed, speechSettings, languageTrail, userActions, isSpeaking, isPaused, mode, language, analysis,
                   pauseTimeoutRef, timers, storedLanguage>>

RemoveAt(q, i) == [j \in 1..(Len(q) - 1) |-> IF j < i THEN q[j] ELSE q[j + 1]]

\* The analyze call of invocation i returns the result for frame f:
\* lines 252-283 / 286-313, then finally.
AnalysisResolve(i, f) ==
    /\ i \in 1..Len(inflight)
    /\ LET c == inflight[i] IN
        /\ analysis' = NextAnalysis(analysis, c, f)
        /\ IF SpeakGuard(c)
           THEN Speak("analysis",
                      [Spoke("analysis_spoken",
                             ResultText(c.language, ResultHazards(f, c.language),
                                        ResultBody(c, f)), FALSE)
                       EXCEPT !.commanded = c.commanded])
           ELSE /\ lastEvent' = [Event("analysis_silent") EXCEPT !.commanded = c.commanded]
                /\ UNCHANGED <<speechRef, speechQueue, pendingEnds>>
    /\ inflight' = RemoveAt(inflight, i)
    /\ isCapturing' = FALSE
    /\ UNCHANGED <<Fixed, speechSettings, languageTrail, userActions, sinceFull, isSpeaking, isPaused, mode, language,
                   timeLeft, tickLeft, pauseTimeoutRef, timers, storedLanguage>>

\* The analyze call of invocation i throws (backend error): lines 315-330.
AnalysisReject(i) ==
    /\ i \in 1..Len(inflight)
    /\ Speak("analysis", [Spoke("analysis_failed", errorAnalyzing(inflight[i].language), TRUE)
                          EXCEPT !.commanded = inflight[i].commanded])
    /\ inflight' = RemoveAt(inflight, i)
    /\ isCapturing' = FALSE
    /\ UNCHANGED <<Fixed, speechSettings, languageTrail, userActions, sinceFull, isSpeaking, isPaused, mode, language,
                   analysis, timeLeft, tickLeft, pauseTimeoutRef, timers, storedLanguage>>

(***************************************************************************)
(* Events of the speech channel                                            *)
(***************************************************************************)
\* The head of the queue begins playing; onstart (lines 394-404) when it has one.
UtteranceStart ==
    /\ speechQueue # <<>>
    /\ ~Head(speechQueue).started
    /\ speechQueue' = [speechQueue EXCEPT ![1].started = TRUE]
    /\ isSpeaking' = IF HasHandlers(Head(speechQueue)) THEN TRUE ELSE isSpeaking
    /\ lastEvent' = Event("utterance_start")
    /\ UNCHANGED <<Fixed, speechSettings, languageTrail, userActions, isCapturing, isPaused, mode, language, analysis,
                   inflight, speechRef, pauseTimeoutRef, pendingEnds, storedLanguage>>
    /\ SchedulerEffect(timers)

\* onend, lines 406-436: the timers and pauseTimeoutRef.current it leaves.
OnEndTimers(cmd, tm, ref) ==
    IF cmd
    THEN LET cleared == IF ref # 0 THEN ClearTimeout(tm, ref) ELSE tm
             id == NewTimerId(cleared, 0)
         IN  [timers |-> cleared \cup {[id |-> id, kind |-> "grace", left |-> GraceDelay]},
              ref |-> id]
    ELSE [timers |-> tm, ref |-> ref]

OnEnd(cmd) ==
    /\ isSpeaking' = FALSE
    /\ pauseTimeoutRef' = OnEndTimers(cmd, timers, pauseTimeoutRef).ref
    /\ SchedulerEffect(OnEndTimers(cmd, timers, pauseTimeoutRef).timers)

\* The utterance that is playing completes.
UtteranceEnd ==
    /\ Speaking(speechQueue)
    /\ speechQueue' = Tail(speechQueue)
    /\ lastEvent' = IF HasHandlers(Head(speechQueue))
                    THEN Spoke("utterance_end", <<>>, Head(speechQueue).cmd)
                    ELSE Event("test_end")
    /\ UNCHANGED <<Fixed, speechSettings, languageTrail, userActions, isCapturing, isPaused, mode, language, analysis,
                   inflight, speechRef, pendingEnds, storedLanguage>>
    /\ IF HasHandlers(Head(speechQueue))
       THEN OnEnd(Head(speechQueue).cmd)
       ELSE /\ UNCHANGED <<isSpeaking, pauseTimeoutRef>>
            /\ SchedulerEffect(timers)

\* The end event of an utterance that cancel() interrupted is delivered.
CancelledEnd(cmd) ==
    /\ pendingEnds[cmd] > 0
    /\ pendingEnds' = [pendingEnds EXCEPT ![cmd] = @ - 1]
    /\ lastEvent' = Spoke("cancelled_end", <<>>, cmd)
    /\ UNCHANGED <<Fixed, speechSettings, languageTrail, userActions, isCapturing, isPaused, mode, language, analysis,
                   inflight, speechRef, speechQueue, storedLanguage>>
    /\ OnEnd(cmd)

\* A setTimeout callback runs: lines 431-434 (grace) and 464-466 (stop).
TimerFire(t) ==
    /\ t \in timers
    /\ t.left = 0
    /\ isPaused' = FALSE
    /\ pauseTimeoutRef' = IF t.kind = "grace" THEN 0 ELSE pauseTimeoutRef
    /\ lastEvent' = IF t.kind = "grace" THEN Event("grace_timer") ELSE Event("stop_timer")
    /\ UNCHANGED <<Fixed, speechSettings, languageTrail, userActions, isCapturing, isSpeaking, mode, language, analysis,
                   inflight, speechRef, speechQueue, pendingEnds, storedLanguage>>
    /\ SchedulerEffect(timers \ {t})

(***************************************************************************)
(* Voice commands, lines 139-217                                           *)
(***************************************************************************)
\* handleModeSwitch, lines 46-58
HandleModeSwitch(newMode) ==
    /\ UserAction
    /\ mode' = newMode
    /\ Speak("command", Spoke("command_mode", switchedToMode(language, newMode), TRUE))
    /\ inflight' = Commanded(inflight)
    /\ UNCHANGED <<Fixed, speechSettings, languageTrail, isCapturing, isSpeaking, isPaused, language, analysis,
                   pauseTimeoutRef, storedLanguage>>
    /\ SchedulerEffect(timers)

\* the hazards command, lines 187-204
HazardsCommand ==
    /\ UserAction
    /\ IF analysis.set
       THEN Speak("command",
                  Spoke("command_hazards",
                        (IF Len(analysis.hazards) > 0
                         THEN detectedHazards(language, analysis.hazards)
                         ELSE noHazards(language)), TRUE))
       ELSE /\ lastEvent' = Event("command_hazards_ignored")
            /\ UNCHANGED <<speechRef, speechQueue, pendingEnds>>
    /\ inflight' = Commanded(inflight)
    /\ UNCHANGED <<Fixed, speechSettings, languageTrail, sinceFull, isCapturing, isSpeaking, isPaused, mode, language,
                   analysis, timeLeft, tickLeft, pauseTimeoutRef, timers,
                   storedLanguage>>

\* handleLanguageToggle, lines 60-79 (header button and language command)
LanguageOrderSwapped == <<"en", "ml", "hi">>

LanguageOrder == <<"en", "hi", "ml">>
IndexOf(l) == IF \E i \in 1..Len(LanguageOrder) : LanguageOrder[i] = l
              THEN (CHOOSE i \in 1..Len(LanguageOrder) : LanguageOrder[i] = l) - 1
              ELSE -1
NextLanguage(l) == LanguageOrder[((IndexOf(l) + 1) % Len(LanguageOrder)) + 1]

LanguageToggled(byVoice) ==
    /\ language' = NextLanguage(language)
    /\ languageTrail' = Append(languageTrail, NextLanguage(language))
    /\ storedLanguage' = NextLanguage(language)
    /\ lastEvent' = Event(IF byVoice THEN "command_language" ELSE "language_toggle")
    /\ inflight' = IF byVoice THEN Commanded(inflight) ELSE inflight
    /\ UNCHANGED <<Fixed, speechSettings, isCapturing, isSpeaking, isPaused, mode, analysis,
                   speechRef, pauseTimeoutRef, speechQueue, pendingEnds>>
    /\ SchedulerEffect(timers)

HandleLanguageToggle(byVoice) == UserAction /\ LanguageToggled(byVoice)

(***************************************************************************)
(* Buttons                                                                 *)
(***************************************************************************)
\* Tab onClick, lines 567-591
TabClicked(m) ==
    /\ mode' = m
    /\ lastEvent' = Event("tab")
    /\ UNCHANGED <<Fixed, speechSettings, languageTrail, isCapturing, isSpeaking, isPaused, language, analysis,
                   inflight, speechRef, pauseTimeoutRef, speechQueue, pendingEnds,
                   storedLanguage>>
    /\ SchedulerEffect(timers)

TabClick(m) == UserAction /\ TabClicked(m)

\* stopSpeaking, lines 441-467; the button calls it only while isSpeaking (517)
StopTimersCleared(tm, ref) == IF ref # 0 THEN ClearTimeout(tm, ref) ELSE tm

StopTimersAfter(tm, ref) ==
    LET cleared == IF ref # 0 THEN ClearTimeout(tm, ref) ELSE tm
    IN  cleared \cup {[id |-> NewTimerId(cleared, ref), kind |-> "stop", left |-> StopDelay]}

StopSpeaking ==
    /\ UserAction
    /\ isSpeaking
    /\ Cardinality(StopTimers(timers)) < MaxStopTimers
    /\ \E o \in CancelOutcomes(speechQueue, pendingEnds) :
            /\ speechQueue' = o.q
            /\ pendingEnds' = o.pe
    /\ isSpeaking' = FALSE
    /\ lastEvent' = Event("stop")
    /\ UNCHANGED <<Fixed, speechSettings, languageTrail, isCapturing, isPaused, mode, language, analysis,
                   inflight, speechRef, pauseTimeoutRef, storedLanguage>>
    /\ SchedulerEffect(StopTimersAfter(timers, pauseTimeoutRef))

\* VoiceSettings: a setting was changed, effect of lines 71-87, which calls
\* onVoiceSettingsChange = (text) => speak(text, false) (line 622).
SettingsChanged(v) ==
    /\ speechSettings' = v
    /\ LET afterCancel == IF Speaking(speechQueue)
                          THEN CancelOutcomes(speechQueue, pendingEnds)
                          ELSE {[q |-> speechQueue, pe |-> pendingEnds]}
       IN \E a \in afterCancel :
            SpeakFrom(a.q, a.pe, "settings",
                      Spoke("settings", voiceSettingsUpdated(settingsLanguage), FALSE), v)
    /\ UNCHANGED <<Fixed, languageTrail, sinceFull, isCapturing, isSpeaking, isPaused, mode, language,
                   analysis, inflight, timeLeft, tickLeft, pauseTimeoutRef, timers,
                   storedLanguage>>

SettingsChange == UserAction /\ SettingsChanged("slow")

\* VoiceSettings: the Test Voice button, updateVoiceSettings, lines 93-105
TestVoice ==
    /\ UserAction
    /\ \E o \in CancelOutcomes(speechQueue, pendingEnds) :
            /\ speechQueue' = Append(o.q, Utterance("test", FALSE, SavedSettings(speechSettings)))
            /\ pendingEnds' = o.pe
    /\ lastEvent' = Spoke("test_voice", testMessage(settingsLanguage), FALSE)
    /\ UNCHANGED <<Fixed, speechSettings, languageTrail, sinceFull, isCapturing, isSpeaking, isPaused, mode, language,
                   analysis, inflight, timeLeft, tickLeft, speechRef, pauseTimeoutRef,
                   timers, storedLanguage>>

(***************************************************************************)
(* What the main screen renders, lines 594-618                             *)
(***************************************************************************)
\* the hazard banner, line 596
HazardBannerVisible == analysis.set /\ Len(analysis.hazards) > 0

\* the text of the result panel, lines 614-618 ("placeholder": t.analyzing...)
PanelText ==
    IF mode = "navigation"
    THEN (IF analysis.set /\ analysis.navigation # "" THEN analysis.navigation ELSE "placeholder")
    ELSE (IF analysis.set /\ analysis.description # "" THEN analysis.description ELSE "placeholder")

Next ==
    \/ Advance
    \/ Tick
    \/ \E i \in 1..MaxInFlight, f \in Frames : AnalysisResolve(i, f)
    \/ \E i \in 1..MaxInFlight : AnalysisReject(i)
    \/ UtteranceStart
    \/ UtteranceEnd
    \/ \E cmd \in BOOLEAN : CancelledEnd(cmd)
    \/ \E t \in timers : TimerFire(t)
    \/ \E m \in Modes : HandleModeSwitch(m)
    \/ HazardsCommand
    \/ \E byVoice \in BOOLEAN : HandleLanguageToggle(byVoice)
    \/ \E m \in Modes : TabClick(m)
    \/ StopSpeaking
    \/ SettingsChange
    \/ TestVoice

Spec == Init /\ [][Next]_vars

(***************************************************************************)
(* The platform does its part: time passes, the interval and the timers    *)
(* run, an utterance that is queued starts and one that plays ends, the    *)
(* end event of an interrupted utterance is delivered when the platform    *)
(* has one for it, and every analysis call returns.                        *)
(***************************************************************************)
AnalysisReturn ==
    \/ \E i \in 1..MaxInFlight, f \in Frames : AnalysisResolve(i, f)
    \/ \E i \in 1..MaxInFlight : AnalysisReject(i)

Fairness ==
    /\ WF_vars(Advance)
    /\ WF_vars(Tick)
    /\ WF_vars(AnalysisReturn)
    /\ WF_vars(UtteranceStart)
    /\ WF_vars(UtteranceEnd)
    /\ WF_vars(\E cmd \in BOOLEAN : CancelledEnd(cmd))
    /\ WF_vars(\E t \in timers : TimerFire(t))

LiveSpec == Spec /\ Fairness

(***************************************************************************)
(* The language over sessions: the scheduler runs, the language is toggled *)
(* and the page is reloaded, starting from any content of the localStorage *)
(* item "language".                                                        *)
(***************************************************************************)
AllSavedLanguages == {"none", "en", "hi", "ml", "fr"}

SessionToggle(byVoice) ==
    /\ supported
    /\ userActions < MaxToggles
    /\ userActions' = userActions + 1
    /\ LanguageToggled(byVoice)

\* The page is reloaded: every state and ref is initialised again, the mount
\* effects (App lines 81-87, VoiceSettings lines 20-25) read localStorage.
Restart ==
    /\ language' = StartupLanguage(storedLanguage)
    /\ settingsLanguage' = StartupLanguage(storedLanguage)
    /\ languageTrail' = <<StartupLanguage(storedLanguage)>>
    /\ isCapturing' = FALSE
    /\ isSpeaking' = FALSE
    /\ isPaused' = FALSE
    /\ mode' = "scene"
    /\ analysis' = NoAnalysis
    /\ inflight' = <<>>
    /\ timeLeft' = interval
    /\ tickLeft' = TickPeriod
    /\ speechRef' = FALSE
    /\ pauseTimeoutRef' = 0
    /\ timers' = {}
    /\ speechQueue' = <<>>
    /\ pendingEnds' = [c \in BOOLEAN |-> 0]
    /\ sinceFull' = 0
    /\ lastEvent' = Event("restart")
    /\ UNCHANGED <<supported, storedLanguage, userActions, analytics, speechSettings>>

SessionNext ==
    \/ Advance
    \/ Tick
    \/ \E byVoice \in BOOLEAN : SessionToggle(byVoice)
    \/ Restart

SessionSpec == InitFrom(AllSavedLanguages) /\ [][SessionNext]_vars

(***************************************************************************)
(* Captures and mode switches: the scheduler, the backend and the speech   *)
(* channel run, and the only user action is a click on a mode tab.         *)
(***************************************************************************)
ModeTab(m) ==
    /\ supported
    /\ userActions < MaxModeSwitches
    /\ userActions' = userActions + 1
    /\ TabClicked(m)

ModeNext ==
    \/ Advance
    \/ Tick
    \/ \E i \in 1..MaxInFlight, f \in Frames : AnalysisResolve(i, f)
    \/ \E i \in 1..MaxInFlight : AnalysisReject(i)
    \/ UtteranceStart
    \/ UtteranceEnd
    \/ \E cmd \in BOOLEAN : CancelledEnd(cmd)
    \/ \E t \in timers : TimerFire(t)
    \/ \E m \in Modes : ModeTab(m)

ModeSpec == Init /\ [][ModeNext]_vars

(***************************************************************************)
(* Captures and voice settings: the scheduler, the backend and the speech  *)
(* channel run, and the only user action is a change of rate, pitch or     *)
(* voice in the settings panel; what an earlier session persisted is       *)
(* drawn at start.                                                         *)
(***************************************************************************)
VoiceSettingsChange(v) ==
    /\ supported
    /\ userActions < MaxSettingsChanges
    /\ userActions' = userActions + 1
    /\ v # speechSettings
    /\ SettingsChanged(v)

VoiceNext ==
    \/ Advance
    \/ Tick
    \/ \E i \in 1..MaxInFlight, f \in Frames : AnalysisResolve(i, f)
    \/ \E i \in 1..MaxInFlight : AnalysisReject(i)
    \/ UtteranceStart
    \/ UtteranceEnd
    \/ \E cmd \in BOOLEAN : CancelledEnd(cmd)
    \/ \E t \in timers : TimerFire(t)
    \/ \E v \in SettingsValues : VoiceSettingsChange(v)

VoiceInit ==
    /\ CoordinatorStart(SavedLanguages)
    /\ analytics = "working"
    /\ speechSettings \in {"unset"} \cup SettingsValues
    /\ lastEvent = Event("init")

VoiceSpec == VoiceInit /\ [][VoiceNext]_vars

(***************************************************************************)
(* The support flags of useSpeechRecognition are values of the render      *)
(* (dependencies of the effect of lines 361-369): isMicrophoneAvailable    *)
(* turns false when the recognizer is refused the microphone.  Then the    *)
(* component returns the screen of lines 483-497: Webcam, buttons and      *)
(* VoiceSettings are unmounted, webcamRef.current is null again; the       *)
(* states, the interval and the calls in flight stay as they are.          *)
(***************************************************************************)
MicrophoneRefused ==
    /\ supported
    /\ supported' = FALSE
    /\ lastEvent' = Event("microphone_refused")
    /\ UNCHANGED <<isCapturing, isSpeaking, isPaused, mode, language, analysis,
                   inflight, timeLeft, tickLeft, speechRef, pauseTimeoutRef, timers,
                   speechQueue, pendingEnds, storedLanguage, settingsLanguage,
                   userActions, sinceFull, languageTrail, analytics, speechSettings>>

\* lines 361-369: listening is started only while both flags are true, and
\* the clean-up stops it when one of them changes
Listening == supported

SupportNext ==
    \/ Advance
    \/ Tick
    \/ \E i \in 1..MaxInFlight, f \in Frames : AnalysisResolve(i, f)
    \/ \E i \in 1..MaxInFlight : AnalysisReject(i)
    \/ UtteranceStart
    \/ UtteranceEnd
    \/ \E cmd \in BOOLEAN : CancelledEnd(cmd)
    \/ \E t \in timers : TimerFire(t)
    \/ MicrophoneRefused

SupportSpec == Init /\ [][SupportNext]_vars

(***************************************************************************)
(* The hazards an analyze call returns, for any hazard answer of the       *)
(* backend (vision.ts lines 145-146 and 168-172).                          *)
(***************************************************************************)
HazardStrings ==
    { <<"stairs">>, <<"Wet Floor">>, <<"foot", "step", "s">>, <<"dog">>,
      <<"STAIRS", " and ", "Glass">>, <<"wet floor", " near ", "stairs">>,
      <<"NONE">>, <<>> }

RECURSIVE ListsUpTo(_)
ListsUpTo(n) ==
    IF n = 0 THEN {<<>>}
    ELSE ListsUpTo(n - 1) \cup
         {Append(hz, h) : hz \in {x \in ListsUpTo(n - 1) : Len(x) = n - 1}, h \in HazardStrings}

\* The backend has answered with the hazards hz a call made for language l.
TranslateInit ==
    /\ InitState(SavedLanguages)
    /\ \E hz \in ListsUpTo(MaxHazards), l \in Languages :
            lastEvent = [op |-> "hazards_answer", input |-> hz, language |-> l]

AnalyzeHazards ==
    /\ lastEvent.op = "hazards_answer"
    /\ lastEvent' = [op |-> "hazards_returned", input |-> lastEvent.input,
                     language |-> lastEvent.language,
                     output |-> ReturnedHazards(lastEvent.input, lastEvent.language)]
    /\ UNCHANGED <<supported, isCapturing, isSpeaking, isPaused, mode, language, analysis,
                   inflight, timeLeft, tickLeft, speechRef, pauseTimeoutRef, timers,
                   speechQueue, pendingEnds, storedLanguage, settingsLanguage,
                   userActions, sinceFull, languageTrail, analytics, speechSettings>>

TranslateNext == AnalyzeHazards

TranslateSpec == TranslateInit /\ [][TranslateNext]_vars

(***************************************************************************)
(* The analytics module (firebase.ts).  The coordinator calls trackEvent,  *)
(* trackEngagement, trackPerformance, trackError and updateUserProperties  *)
(* without awaiting them.  They are async functions, so nothing they throw *)
(* reaches the caller, and trackEvent and updateUserProperties catch what  *)
(* getAnalyticsInstance, logEvent or setUserProperties throw (lines        *)
(* 283-309, 357-370).  TrackSurfaces(s) tells whether a call made while    *)
(* analytics is in status s throws into the calling handler.               *)
(***************************************************************************)
TrackSurfacesFailure(s) == s = "failing"

TrackSurfaces(s) == FALSE

\* handleCapture after the await, lines 252-313: setAnalysis, then the
\* trackEvent and trackPerformance calls, then the guarded speak; an
\* exception at lines 262-304 would leave the try block for the catch of
\* lines 315-327.
TrackedResolve(i, f, s) ==
    IF TrackSurfaces(s)
    THEN /\ i \in 1..Len(inflight)
         /\ analysis' = NextAnalysis(analysis, inflight[i], f)
         /\ Speak("analysis", Spoke("analysis_failed",
                                    errorAnalyzing(inflight[i].language), TRUE))
         /\ inflight' = RemoveAt(inflight, i)
         /\ isCapturing' = FALSE
         /\ UNCHANGED <<Fixed, speechSettings, languageTrail, userActions, sinceFull, isSpeaking, isPaused,
                        mode, language, timeLeft, tickLeft, pauseTimeoutRef, timers,
                        storedLanguage>>
    ELSE AnalysisResolve(i, f)

\* onend, lines 406-436: setIsSpeaking(false), then the trackEngagement call,
\* then the grace timer; an exception at line 415 would end the handler
\* before line 426.
TrackedEnd(s) ==
    IF TrackSurfaces(s)
    THEN /\ Speaking(speechQueue)
         /\ HasHandlers(Head(speechQueue))
         /\ speechQueue' = Tail(speechQueue)
         /\ lastEvent' = Spoke("utterance_end", <<>>, Head(speechQueue).cmd)
         /\ isSpeaking' = FALSE
         /\ UNCHANGED <<Fixed, speechSettings, languageTrail, userActions, isCapturing, isPaused, mode,
                        language, analysis, inflight, speechRef, pendingEnds,
                        storedLanguage, pauseTimeoutRef>>
         /\ SchedulerEffect(timers)
    ELSE UtteranceEnd

\* What logEvent handed to the analytics service in the last callback
\* (firebase.ts lines 285-302): after an analysis returned, the event
\* "image_analyzed" of part_001 lines 262-271 / 291-301 with the number of
\* hazards and their names joined by commas; the hazards of the result are
\* the hazards setAnalysis has just stored.
NothingLogged == [name |-> "none", hazards_detected |-> 0, hazard_types |-> <<>>]

LoggedEvent ==
    IF analytics = "working" /\ lastEvent.op \in {"analysis_spoken", "analysis_silent"}
    THEN [name |-> "image_analyzed",
          hazards_detected |-> Len(analysis.hazards),
          hazard_types |-> JoinComma(analysis.hazards)]
    ELSE NothingLogged

\* The callbacks of the coordination loop, with analytics in status s.
TelemetryNextWith(s) ==
    \/ Advance
    \/ Tick
    \/ \E i \in 1..MaxInFlight, f \in Frames : TrackedResolve(i, f, s)
    \/ \E i \in 1..MaxInFlight : AnalysisReject(i)
    \/ UtteranceStart
    \/ TrackedEnd(s)
    \/ \E cmd \in BOOLEAN : CancelledEnd(cmd)
    \/ \E t \in timers : TimerFire(t)

TelemetryNext == TelemetryNextWith(analytics)

TelemetryInit ==
    /\ CoordinatorStart(SavedLanguages)
    /\ analytics \in AnalyticsStatuses
    /\ speechSettings = "unset"
    /\ lastEvent = Event("init")

TelemetrySpec == TelemetryInit /\ [][TelemetryNext]_vars

(***************************************************************************)
(* The hazard answer of the backend as text (vision.ts lines 145-146 and   *)
(* 196-197): a sequence of fragments, each a word, a comma or white space. *)
(***************************************************************************)
ResponseFragments == {"NONE", "stairs", ",", " "}

RECURSIVE TextsUpTo(_)
TextsUpTo(n) ==
    IF n = 0 THEN {<<>>}
    ELSE TextsUpTo(n - 1) \cup
         {Append(x, c) : x \in {y \in TextsUpTo(n - 1) : Len(y) = n - 1},
                         c \in ResponseFragments}

\* hazardText.split(',')
RECURSIVE SplitComma(_)
SplitComma(text) ==
    IF \A j \in 1..Len(text) : text[j] # ","
    THEN <<text>>
    ELSE LET k == CHOOSE j \in 1..Len(text) :
                    text[j] = "," /\ \A m \in 1..(j - 1) : text[m] # ","
         IN  <<SubSeq(text, 1, k - 1)>> \o SplitComma(SubSeq(text, k + 1, Len(text)))

\* h.trim()
RECURSIVE Trim(_)
Trim(h) ==
    IF h = <<>> THEN h
    ELSE IF Head(h) = " " THEN Trim(Tail(h))
    ELSE IF h[Len(h)] = " " THEN Trim(SubSeq(h, 1, Len(h) - 1))
    ELSE h

\* hazardText === 'NONE'
IsSentinel(text) == text = <<"NONE">>

\* line 146 / 197
ParseHazards(text) ==
    IF IsSentinel(text) THEN <<>>
    ELSE [j \in 1..Len(SplitComma(text)) |-> Trim(SplitComma(text)[j])]

\* The backend has answered the hazard prompt of a call made for language l.
ParseInit ==
    /\ InitState(SavedLanguages)
    /\ \E text \in TextsUpTo(MaxResponseLen), l \in Languages :
            lastEvent = [op |-> "hazard_text", input |-> text, language |-> l]

\* lines 145-146 and 171 (196-197 and 216): the hazards of the result
HazardsOfResponse ==
    /\ lastEvent.op = "hazard_text"
    /\ lastEvent' = [op |-> "hazards_parsed", input |-> lastEvent.input,
                     language |-> lastEvent.language,
                     output |-> ReturnedHazards(ParseHazards(lastEvent.input),
                                                lastEvent.language)]
    /\ UNCHANGED <<supported, isCapturing, isSpeaking, isPaused, mode, language, analysis,
                   inflight, timeLeft, tickLeft, speechRef, pauseTimeoutRef, timers,
                   speechQueue, pendingEnds, storedLanguage, settingsLanguage,
                   userActions, sinceFull, languageTrail, analytics, speechSettings>>

ParseNext == HazardsOfResponse

ParseSpec == ParseInit /\ [][ParseNext]_vars

(***************************************************************************)
(* Key rotation (vision.ts lines 16-90) inside one analyze call.  The      *)
(* capture of the first countdown is in flight; the analyze call makes its *)
(* two content-generation calls, "hazards" then "text" (lines 140 and 157, *)
(* 191 and 208).  lastEvent holds the position of the call: keys is        *)
(* GEMINI_API_KEYS.length, i the loop counter of line 64, tried the number *)
(* of times fn was called, trail the outcomes of those attempts, error the *)
(* message of the last error caught, start the index when the call began.  *)
(***************************************************************************)
AttemptsOneMore(n) == n + 1

\* line 62
Attempts(n) == IF n > 1 THEN n ELSE 1

\* lines 37-40
rotateGeminiKey(n, k) == IF n <= 1 THEN k ELSE (k + 1) % n

\* The messages of the errors an attempt throws, as fragments: a 429 answer, a
\* quota answer in capitals, an answer of another kind, a network failure.
ErrorMessages ==
    {<<"429", " Too Many Requests">>, <<"Quota", " exceeded">>,
     <<"500", " Internal">>, <<"fetch failed">>}
RotateTerms ==
    {"resource_exhausted", "quota", "rate", "limit", "api key not valid", "permission",
     "unauth"}

\* lines 42-58
shouldRotateKey(msg) ==
    \/ Includes(msg, "429")
    \/ \E term \in RotateTerms : Includes(ToLowerCase(msg), term)

RetriesAnyError(n, msg) == n > 1

\* line 71: the failed attempt is followed by another key
Retries(n, msg) == n > 1 /\ shouldRotateKey(msg)

Generation(n, k, call) ==
    [op |-> "generate", keys |-> n, geminiKeyIndex |-> k, start |-> k, call |-> call,
     i |-> 0, tried |-> 0, trail |-> <<>>, error |-> <<>>]

KeyRotationInit ==
    /\ supported = TRUE
    /\ storedLanguage \in AllSavedLanguages
    /\ language = StartupLanguage(storedLanguage)
    /\ settingsLanguage = StartupLanguage(storedLanguage)
    /\ isCapturing = TRUE
    /\ isSpeaking = FALSE
    /\ isPaused = FALSE
    /\ mode = "scene"
    /\ analysis = NoAnalysis
    /\ inflight = <<Closure>>
    /\ timeLeft = interval
    /\ tickLeft = TickPeriod
    /\ speechRef = FALSE
    /\ pauseTimeoutRef = 0
    /\ timers = {}
    /\ speechQueue = <<>>
    /\ pendingEnds = [c \in BOOLEAN |-> 0]
    /\ userActions = 0
    /\ sinceFull = 0
    /\ languageTrail = <<StartupLanguage(storedLanguage)>>
    /\ analytics = "working"
    /\ speechSettings = "unset"
    /\ \E n \in 0..MaxKeys, k \in 0..MaxKeys :
            /\ (k < n \/ k = 0)
            /\ lastEvent = Generation(n, k, "hazards")

RotationFrame ==
    UNCHANGED <<supported, isCapturing, isSpeaking, isPaused, mode, language, analysis,
                inflight, timeLeft, tickLeft, speechRef, pauseTimeoutRef, timers,
                speechQueue, pendingEnds, storedLanguage, settingsLanguage,
                userActions, sinceFull, languageTrail, analytics, speechSettings>>

\* line 65 with no key configured: getCurrentGeminiKey throws (lines 29-33)
\* outside the try block, fn is not called
KeyMissing ==
    /\ lastEvent.op = "generate"
    /\ lastEvent.keys = 0
    /\ lastEvent' = [lastEvent EXCEPT !.op = "generate_failed"]
    /\ RotationFrame

\* line 68: fn returns a response
AttemptSucceeds ==
    /\ lastEvent.op = "generate"
    /\ lastEvent.keys > 0
    /\ lastEvent' = [lastEvent EXCEPT !.op = "generated",
                                      !.tried = @ + 1,
                                      !.trail = Append(@, "response")]
    /\ RotationFrame

\* lines 69-79: fn throws; rotate and try again while the loop lasts
AttemptFails(msg) ==
    /\ lastEvent.op = "generate"
    /\ lastEvent.keys > 0
    /\ LET e == [lastEvent EXCEPT !.tried = @ + 1,
                                  !.error = msg,
                                  !.trail = Append(@, IF shouldRotateKey(msg)
                                                      THEN "quota_error"
                                                      ELSE "other_error")]
       IN IF Retries(lastEvent.keys, msg)
          THEN lastEvent' =
                 [e EXCEPT !.geminiKeyIndex = rotateGeminiKey(e.keys, @),
                           !.i = @ + 1,
                           !.op = IF e.i + 1 < Attempts(e.keys)
                                  THEN "generate" ELSE "generate_failed"]
          ELSE lastEvent' = [e EXCEPT !.op = "generate_failed"]
    /\ RotationFrame

\* vision.ts lines 145-157 / 196-208: the hazard answer is in, the second call
AnalyzeContinues ==
    /\ lastEvent.op = "generated"
    /\ lastEvent.call = "hazards"
    /\ lastEvent' = Generation(lastEvent.keys, lastEvent.geminiKeyIndex, "text")
    /\ RotationFrame

\* vision.ts lines 168-172 / 214-217: the analyze call returns to handleCapture
AnalyzeReturns ==
    /\ lastEvent.op = "generated"
    /\ lastEvent.call = "text"
    /\ \E f \in Frames : AnalysisResolve(1, f)

\* vision.ts lines 173-176 / 218-221: the analyze call rethrows to handleCapture
AnalyzeThrows ==
    /\ lastEvent.op = "generate_failed"
    /\ AnalysisReject(1)

KeyRotationNext ==
    \/ KeyMissing
    \/ AttemptSucceeds
    \/ \E msg \in ErrorMessages : AttemptFails(msg)
    \/ AnalyzeContinues
    \/ AnalyzeReturns
    \/ AnalyzeThrows

KeyRotationSpec == KeyRotationInit /\ [][KeyRotationNext]_vars

(***************************************************************************)
(* Key rotation under overlapping captures.  handleCapture has no guard on *)
(* isCapturing, so the analyze calls of several captures are in flight     *)
(* together, each inside withGeminiKeyRotation, all reading and rotating   *)
(* the one module variable geminiKeyIndex (vision.ts line 17).  An attempt *)
(* has two steps, the call of fn with the current key (lines 65-68) and    *)
(* its settlement, and other calls run between them.  lastEvent holds the  *)
(* shared index (start = its value when the calls began) and, per call,    *)
(* the loop counter i, the keys it has attempted and its state.            *)
(***************************************************************************)
RotationCall == [i |-> 0, tried |-> <<>>, state |-> "loop"]

SharedKeyInit ==
    /\ supported = TRUE
    /\ storedLanguage \in SavedLanguages
    /\ language = StartupLanguage(storedLanguage)
    /\ settingsLanguage = StartupLanguage(storedLanguage)
    /\ isCapturing = TRUE
    /\ isSpeaking = FALSE
    /\ isPaused = FALSE
    /\ mode = "scene"
    /\ analysis = NoAnalysis
    /\ \E k \in 1..MaxInFlight : inflight = [j \in 1..k |-> Closure]
    /\ timeLeft = interval
    /\ tickLeft = TickPeriod
    /\ speechRef = FALSE
    /\ pauseTimeoutRef = 0
    /\ timers = {}
    /\ speechQueue = <<>>
    /\ pendingEnds = [c \in BOOLEAN |-> 0]
    /\ userActions = 0
    /\ sinceFull = 0
    /\ languageTrail = <<StartupLanguage(storedLanguage)>>
    /\ analytics = "working"
    /\ speechSettings = "unset"
    /\ \E n \in 1..MaxKeys, k \in 0..(MaxKeys - 1) :
            /\ k < n
            /\ lastEvent = [op |-> "shared_rotation", keys |-> n, start |-> k,
                            geminiKeyIndex |-> k, last |-> 0,
                            calls |-> [c \in 1..Len(inflight) |-> RotationCall]]

\* lines 65-68: call c reads the current key and calls fn with it
CallAttempts(c) ==
    /\ lastEvent.op = "shared_rotation"
    /\ c \in 1..Len(lastEvent.calls)
    /\ lastEvent.calls[c].state = "loop"
    /\ lastEvent' =
          [lastEvent EXCEPT !.last = c,
                            !.calls[c].state = "awaiting",
                            !.calls[c].tried =
                                Append(@, lastEvent.geminiKeyIndex % lastEvent.keys)]
    /\ RotationFrame

\* line 68: the attempt of call c returns a response
CallSucceeds(c) ==
    /\ lastEvent.op = "shared_rotation"
    /\ c \in 1..Len(lastEvent.calls)
    /\ lastEvent.calls[c].state = "awaiting"
    /\ lastEvent' = [lastEvent EXCEPT !.last = c, !.calls[c].state = "returned"]
    /\ RotationFrame

\* lines 69-79: the attempt of call c throws
CallFails(c, msg) ==
    /\ lastEvent.op = "shared_rotation"
    /\ c \in 1..Len(lastEvent.calls)
    /\ lastEvent.calls[c].state = "awaiting"
    /\ IF Retries(lastEvent.keys, msg)
       THEN lastEvent' =
              [lastEvent EXCEPT
                 !.last = c,
                 !.geminiKeyIndex = rotateGeminiKey(lastEvent.keys, @),
                 !.calls[c].i = @ + 1,
                 !.calls[c].state = IF lastEvent.calls[c].i + 1 < Attempts(lastEvent.keys)
                                    THEN "loop" ELSE "exhausted"]
       ELSE lastEvent' = [lastEvent EXCEPT !.last = c, !.calls[c].state = "thrown"]
    /\ RotationFrame

SharedKeyNext ==
    \/ \E c \in 1..MaxInFlight : CallAttempts(c)
    \/ \E c \in 1..MaxInFlight : CallSucceeds(c)
    \/ \E c \in 1..MaxInFlight, msg \in ErrorMessages : CallFails(c, msg)

SharedKeySpec == SharedKeyInit /\ [][SharedKeyNext]_vars

(***************************************************************************)
(* Analytics initialisation (firebase.ts lines 38-46 and 148-274) over the *)
(* page loads of one browser.  lastEvent holds the module state of the     *)
(* page (analyticsPromise, analyticsInstance, sessionStartTime, visitCount,*)
(* the number of async bodies of initAnalytics waiting at await            *)
(* isSupported()), localStorage (storage, and loaded: its content when the *)
(* page was loaded), the clock (now), the environment of the page load and *)
(* what the page has done: calls made, early of them before the            *)
(* initialisation settled, session ids generated, history writes stored.   *)
(* starts is the list of the start times of all sessions created, written  *)
(* the list of those whose history write localStorage accepted.            *)
(***************************************************************************)
HistoryCap == 60

\* isSupported() answers false, or localStorage.setItem throws (quota)
Environments == {"ok", "unsupported", "full"}

\* localStorage.getItem: <<>> for a key that is not stored, <<value>> otherwise
Absent == <<>>

NoStorage == [deviceId |-> Absent, visitCount |-> Absent, sessionHistory |-> Absent]

\* lines 148-158: the stored array, or [] when the key is absent
readSessionHistory(raw) == IF raw = Absent THEN <<>> ELSE raw[1]

\* line 222
StoredVisitCount(raw) == IF raw = Absent THEN 0 ELSE raw[1]

SliceFirst(h, n) == IF Len(h) <= n THEN h ELSE SubSeq(h, 1, n)

\* line 218: history.slice(-60)
SliceLast(h, n) == IF Len(h) <= n THEN h ELSE SubSeq(h, Len(h) - n + 1, Len(h))

NeverMemoised(promise) == FALSE

\* line 193
Memoised(promise) == promise # "null"

\* lines 192-201 and 268: initAnalytics up to its first await
initAnalytics(e) ==
    IF Memoised(e.analyticsPromise) THEN e
    ELSE IF analytics = "unconfigured"
    THEN [e EXCEPT !.analyticsPromise = "resolved"]
    ELSE [e EXCEPT !.analyticsPromise = "pending", !.awaiting = @ + 1]

\* lines 271-274
getAnalyticsInstance(e) == IF e.analyticsInstance THEN e ELSE initAnalytics(e)

\* lines 38-46, then main.tsx line 31: the module is evaluated, the page
\* calls initAnalytics
PageLoaded(store, now, env, prev) ==
    [initAnalytics(
        [op |-> "page_load", storage |-> store, loaded |-> store, now |-> now,
         env |-> env, loads |-> prev.loads + 1,
         faults |-> prev.faults + (IF env = "ok" THEN 0 ELSE 1),
         analyticsPromise |-> "null", analyticsInstance |-> FALSE, awaiting |-> 0,
         sessionStartTime |-> now, visitCount |-> 0,
         calls |-> 1, early |-> 0, sessionIds |-> 0, pushes |-> 0,
         starts |-> prev.starts, written |-> prev.written])
     EXCEPT !.op = "page_load"]

FirstVisit == [loads |-> 0, faults |-> 0, starts |-> <<>>, written |-> <<>>]

AnalyticsInit ==
    /\ CoordinatorStart(SavedLanguages)
    /\ analytics \in {"unconfigured", "working"}
    /\ speechSettings = "unset"
    /\ lastEvent = PageLoaded(NoStorage, 1, "ok", FirstVisit)

AnalyticsOps == {"page_load", "initAnalytics", "trackEvent", "updateUserProperties",
                 "init_settled"}

\* trackEvent (line 284), updateUserProperties (line 358) or initAnalytics is
\* called by the page
AnalyticsCall(entry) ==
    /\ lastEvent.op \in AnalyticsOps
    /\ lastEvent.calls < MaxCalls
    /\ LET e == IF entry = "initAnalytics" THEN initAnalytics(lastEvent)
                ELSE getAnalyticsInstance(lastEvent)
       IN lastEvent' = [e EXCEPT !.op = entry,
                                 !.calls = @ + 1,
                                 !.early = IF lastEvent.analyticsPromise = "pending"
                                           THEN @ + 1 ELSE @]
    /\ RotationFrame

\* lines 200-266: isSupported() has answered, one body of initAnalytics runs
\* to its end
Initialised(e) ==
    IF e.env = "unsupported" THEN e
    ELSE LET a == [e EXCEPT !.analyticsInstance = TRUE]
         IN  IF a.storage.deviceId = Absent /\ a.env = "full"
             THEN a        \* line 57 throws: caught at line 261
             ELSE LET history == Append(readSessionHistory(a.storage.sessionHistory), a.now)
                      trimmed == SliceLast(history, HistoryCap)
                      stored == a.env = "ok"
                      b == [a EXCEPT !.storage.deviceId = <<"device">>,
                                     !.sessionIds = @ + 1,
                                     !.sessionStartTime = a.now,
                                     !.starts = Append(@, a.now),
                                     !.storage.sessionHistory =
                                          IF stored THEN <<trimmed>> ELSE @,
                                     !.pushes = IF stored THEN @ + 1 ELSE @,
                                     !.written = IF stored THEN Append(@, a.now) ELSE @]
                  IN  IF ~stored
                      THEN [b EXCEPT !.visitCount =
                                        StoredVisitCount(b.storage.visitCount) + 1]
                            \* line 224 throws: caught at line 261
                      ELSE [b EXCEPT !.visitCount =
                                        StoredVisitCount(b.storage.visitCount) + 1,
                                     !.storage.visitCount =
                                        <<StoredVisitCount(b.storage.visitCount) + 1>>]

SupportSettles ==
    /\ lastEvent.op \in AnalyticsOps
    /\ lastEvent.awaiting > 0
    /\ lastEvent' = [Initialised(lastEvent) EXCEPT !.op = "init_settled",
                                                   !.awaiting = @ - 1,
                                                   !.analyticsPromise = "resolved"]
    /\ RotationFrame

\* the page is closed and loaded again later: localStorage is what remains
Reload(max, env) ==
    /\ lastEvent.op \in AnalyticsOps
    /\ lastEvent.awaiting = 0
    /\ lastEvent.loads < max
    /\ env # "ok" => lastEvent.faults < MaxFaults
    /\ lastEvent' = PageLoaded(lastEvent.storage, lastEvent.now + 1, env, lastEvent)
    /\ RotationFrame

AnalyticsNext ==
    \/ \E entry \in {"initAnalytics", "trackEvent", "updateUserProperties"} :
            AnalyticsCall(entry)
    \/ SupportSettles
    \/ \E env \in Environments : Reload(MaxPageLoads, env)

AnalyticsSpec == AnalyticsInit /\ [][AnalyticsNext]_vars

\* one analytics call per page load, many page loads
HistoryNext ==
    \/ SupportSettles
    \/ \E env \in Environments : Reload(MaxSessions, env)

HistorySpec == AnalyticsInit /\ [][HistoryNext]_vars

(***************************************************************************)
(* Names for the events the properties speak about                         *)
(***************************************************************************)
\* the interval callback ran
TickOps == {"tick_defer", "tick_dec", "capture_guarded", "capture_noimage",
            "capture_invalid", "capture_sent"}
\* handleCapture passed its guard and took a screenshot
CaptureOps == {"capture_noimage", "capture_invalid", "capture_sent"}
\* the screenshot was null, or the analyze call refused it
MalformedOps == {"capture_noimage", "capture_invalid"}
\* one of the four voice commands was matched
CommandOps == {"command_mode", "command_hazards", "command_hazards_ignored",
               "command_language"}
\* the hazards command was matched
HazardsOps == {"command_hazards", "command_hazards_ignored"}
\* speak was called on the path that starts at the scheduler
SchedulerSpeakOps == {"analysis_spoken", "analysis_failed", "capture_invalid"}
\* handleLanguageToggle ran
ToggleOps == {"command_language", "language_toggle"}
\* onend ran
EndOps == {"utterance_end", "cancelled_end"}
\* an analysis call returned a result
ResolveOps == {"analysis_spoken", "analysis_silent"}

(***************************************************************************)
(* Properties                                                              *)
(***************************************************************************)

\* C1: on every run of the interval callback at which isSpeaking or isPaused
\* is true, handleCapture is not invoked and the countdown is set to its full
\* value (the callback leaves both flags as it found them).
C1_DeferWhileSpeakingOrPaused ==
    (lastEvent.op \in TickOps /\ (isSpeaking \/ isPaused)) =>
        (lastEvent.op = "tick_defer" /\ timeLeft = interval)

C1_Witness ==
    /\ lastEvent.op = "tick_defer"
    /\ isSpeaking
    /\ timeLeft = interval
    /\ inflight # <<>>


\* C2: when a voice command was recognised while an analysis call was in
\* flight and the call then returns a result, the result is stored and speak
\* is not called for it; and speak is never called for a result while
\* isPaused or isSpeaking is true at the time the call returns.
C2_CommandSilencesResult ==
    /\ (lastEvent.op \in ResolveOps /\ lastEvent.commanded) =>
            (analysis.set /\ lastEvent.op = "analysis_silent")
    /\ lastEvent.op = "analysis_spoken" => (~isPaused /\ ~isSpeaking)

\* C3: at most one utterance is on the speech channel: when an utterance is
\* submitted, every utterance submitted before it has been cancelled, so a
\* second one never waits behind the one that is active.
C3_OneUtterance == Len(speechQueue) <= 1

\* C4: after the callback of any of the four voice commands has run isPaused
\* is true, and isPaused goes back to false only when a grace timer runs.
C4_CommandPauses ==
    [][ /\ (lastEvent'.op \in CommandOps => isPaused')
        /\ ((isPaused /\ ~isPaused') => lastEvent'.op = "grace_timer") ]_vars

\* The grace timer that onend has just set.
GraceArmed ==
    \E t \in timers : t.kind = "grace" /\ t.id = pauseTimeoutRef /\ t.left = GraceDelay

\* C5: when an utterance spoken with isCommand = true ends, the 2-second grace
\* timer is pending, and a pending grace timer is never lost: it stays until
\* it runs (setting isPaused to false) or a voice command arrives.
C5_GraceTimerNeverLost ==
    [][ /\ ((lastEvent'.op \in EndOps /\ lastEvent'.cmd) => GraceArmed')
        /\ \A t \in timers :
              (t.kind = "grace" /\ lastEvent'.op \notin CommandOps) =>
                  \/ lastEvent'.op = "grace_timer" /\ t.left = 0 /\ ~isPaused'
                  \/ \E u \in timers' : u.id = t.id /\ u.kind = "grace"
                                        /\ u.left \in {t.left, t.left - 1} ]_vars

\* C6: a capture is triggered on the 10th run of the interval callback after
\* the countdown was set to its full value, and it sets the countdown to full.
C6_PeriodIsInterval ==
    lastEvent.op \in CaptureOps => (lastEvent.n = interval /\ timeLeft = interval)

\* C7: when an analysis call fails, isCapturing is false afterwards, the
\* errorAnalyzing message of the language that is active is handed to speak,
\* and the AnalysisResult is what it was.
C7_FailureSpeaksError ==
    [][ lastEvent'.op = "analysis_failed" =>
            /\ ~isCapturing'
            /\ lastEvent'.text = errorAnalyzing(language')
            /\ speechQueue' # <<>>
            /\ analysis' = analysis ]_vars

\* C8: when the screenshot is null or the analyze call refuses it (no base64
\* marker, empty payload), nothing is spoken, no AnalysisResult is stored and
\* isCapturing is false afterwards.
C8_MalformedFrameSilent ==
    [][ lastEvent'.op \in MalformedOps =>
            /\ lastEvent'.text = <<>>
            /\ speechQueue' = speechQueue
            /\ analysis' = analysis
            /\ ~isCapturing' ]_vars

\* C9: on the main screen, when the platform does its part and no further
\* user action arrives, a capture is triggered again and again, and neither
\* isSpeaking nor isPaused stays true forever.
C9_NoTerminalState ==
    supported => /\ []<>(lastEvent.op \in CaptureOps)
                 /\ []<>(~isSpeaking)
                 /\ []<>(~isPaused)

\* C10: when an utterance of an analysis result or analysis error begins to
\* play, isCapturing is false; and no capture starts while isSpeaking is true.
C10_NotCapturingAndSpeaking ==
    /\ (lastEvent.op = "utterance_start" /\ speechQueue # <<>>
            /\ Head(speechQueue).src = "analysis") => ~isCapturing
    /\ lastEvent.op \in CaptureOps => ~isSpeaking


\* The text of a stored result: navigation text of a navigation result,
\* description of a scene result.
StoredBody(a) == IF a.navigation # "" THEN a.navigation ELSE a.description

RotationNext(l) == CASE l = "en" -> "hi" [] l = "hi" -> "ml" [] l = "ml" -> "en"
                     [] OTHER -> "none"

\* C12: every language toggle (button or voice command) moves the language to
\* the next entry of en -> hi -> ml -> en; three consecutive toggles return to
\* the language they started from; no other language value is ever reached.
C12_LanguageRotation ==
    /\ language = languageTrail[Len(languageTrail)]
    /\ \A k \in 1..Len(languageTrail) :
          /\ languageTrail[k] \in {"en", "hi", "ml"}
          /\ k < Len(languageTrail) => languageTrail[k + 1] = RotationNext(languageTrail[k])
          /\ k + 3 <= Len(languageTrail) => languageTrail[k + 3] = languageTrail[k]

C12_Witness ==
    /\ Len(languageTrail) = 4
    /\ languageTrail[1] = "hi"
    /\ lastEvent.op = "command_language"


\* C13: after every language toggle the persisted language is the new current
\* language; at startup a persisted value that is one of en, hi, ml becomes
\* the current language and any other or missing value leaves en; a restart
\* after toggles resumes in the language selected last.
C13_LanguagePersisted ==
    /\ language = (IF storedLanguage \in {"en", "hi", "ml"} THEN storedLanguage ELSE "en")
    /\ [][ /\ lastEvent'.op \in ToggleOps => storedLanguage' = language'
           /\ lastEvent'.op = "restart" =>
                 /\ language' = (IF storedLanguage \in {"en", "hi", "ml"}
                                 THEN storedLanguage ELSE "en")
                 /\ userActions > 0 => language' = language ]_vars

C13_Witness ==
    /\ lastEvent.op = "restart"
    /\ userActions = 2
    /\ language = "ml"


\* A string contains a vocabulary term, compared without regard to case.
ContainsTerm(h, k) == \E i \in 1..Len(h) : LowerFragment(h[i]) = HazardTerms[k]

\* C14: translating hazards to ml or hi replaces every hazard that contains a
\* vocabulary term (case-insensitively, as a substring) by the phrase of a
\* term it contains in that language, returns every other hazard unchanged,
\* and keeps length and order; for en the list is returned as it is.
C14_HazardTranslation ==
    lastEvent.op = "hazards_returned" =>
        LET hz == lastEvent.input
            out == lastEvent.output
            l == lastEvent.language
        IN  /\ Len(out) = Len(hz)
            /\ l = "en" => out = hz
            /\ l # "en" =>
                 \A i \in 1..Len(hz) :
                    IF \E k \in 1..Len(HazardTerms) : ContainsTerm(hz[i], k)
                    THEN \E k \in 1..Len(HazardTerms) :
                            /\ ContainsTerm(hz[i], k)
                            /\ out[i] = <<(IF l = "ml" THEN MlPhrases[k] ELSE HiPhrases[k])>>
                    ELSE out[i] = hz[i]

C14_Witness ==
    /\ lastEvent.op = "hazards_returned"
    /\ lastEvent.language = "hi"
    /\ lastEvent.input = << <<"dog">>, <<"STAIRS", " and ", "Glass">> >>
    /\ lastEvent.output = << <<"dog">>, <<"stairs.hi">> >>


\* C15: the hazards command never starts a capture or an analysis call, and
\* in every state, also before the first analysis has completed, it hands
\* speak a command-feedback text: the list of the hazards of the last
\* AnalysisResult when there are any, otherwise the no-hazards message.
C15_HazardsCommandAnswers ==
    [][ lastEvent'.op \in HazardsOps =>
            /\ Len(inflight') = Len(inflight)
            /\ isCapturing' = isCapturing
            /\ lastEvent'.cmd
            /\ lastEvent'.text = (IF Len(analysis.hazards) > 0
                                  THEN detectedHazards(language, analysis.hazards)
                                  ELSE noHazards(language))
            /\ speechQueue' # <<>> ]_vars


\* An utterance with isCommand = true has just been submitted.
CommandFeedbackSubmitted(q) ==
    q # <<>> /\ q[Len(q)].src = "command" /\ q[Len(q)].cmd /\ ~q[Len(q)].started

\* C16: a matched mode command changes the mode and hands speak, as command
\* feedback, the acknowledgement that names the new mode; a matched language
\* command changes the language and hands speak a command-feedback
\* acknowledgement.
C16_CommandAcknowledged ==
    [][ /\ lastEvent'.op = "command_mode" =>
              /\ lastEvent'.cmd
              /\ lastEvent'.text = switchedToMode(language', mode')
              /\ CommandFeedbackSubmitted(speechQueue')
        /\ lastEvent'.op = "command_language" =>
              /\ language' # language
              /\ lastEvent'.cmd
              /\ lastEvent'.text # <<>>
              /\ CommandFeedbackSubmitted(speechQueue') ]_vars


\* C17: every call of speak, the first of a session included, cancels the
\* channel before it submits: right after the call the new utterance is the
\* only one on the channel, never queued behind one that is playing.
C17_SpeakCancelsFirst ==
    [][ (lastEvent'.text # <<>> /\ lastEvent'.op # "test_voice") =>
            /\ Len(speechQueue') = 1
            /\ HasHandlers(speechQueue'[1])
            /\ ~speechQueue'[1].started ]_vars


\* C18: stopSpeaking empties the speech channel, leaves isSpeaking false and
\* no grace timer pending, and starts a timer of 0.5 seconds; that timer is
\* never lost: it stays pending until it is due and then sets isPaused to false.
C18_StopSpeaking ==
    [][ /\ lastEvent'.op = "stop" =>
              /\ speechQueue' = <<>>
              /\ ~isSpeaking'
              /\ \A t \in timers' : t.kind # "grace"
              /\ \E t \in timers' : t.kind = "stop" /\ t.left = StopDelay
        /\ \A t \in timers :
              t.kind = "stop" =>
                  \/ /\ t.left = 0
                     /\ lastEvent'.op = "stop_timer"
                     /\ ~isPaused'
                     /\ \A u \in timers' : u.id # t.id
                  \/ \E u \in timers' :
                        /\ u.id = t.id /\ u.kind = "stop"
                        /\ u.left \in {t.left, t.left - 1} ]_vars

C18_Witness ==
    /\ lastEvent.op = "stop_timer"
    /\ ~isPaused
    /\ ~isSpeaking
    /\ speechQueue = <<>>
    /\ timers = {}


\* C19: whenever the result panel shows a result text for the active mode,
\* that text and the hazards list of the current AnalysisResult come from
\* one and the same captured frame.
C19_SameFrame ==
    (analysis.set /\ PanelText # "placeholder") =>
        \E f \in Frames, l \in Languages :
            /\ analysis.hazards = ResultHazards(f, l)
            /\ PanelText = (IF mode = "navigation" THEN NavigationOfFrame(f)
                            ELSE DescriptionOfFrame(f))


\* C20: while speech recognition is unsupported or the microphone is not
\* available, no frame is captured, no analysis call is made, no utterance
\* of the scheduler path is submitted or begins to play, and the recognizer
\* is not listening.
C20_UnsupportedLoopIdle ==
    /\ [](~supported => ~Listening)
    /\ [][ ~supported =>
              /\ lastEvent'.op \notin CaptureOps
              /\ Len(inflight') <= Len(inflight)
              /\ lastEvent'.op \notin SchedulerSpeakOps
              /\ ~(lastEvent'.op = "utterance_start" /\ speechQueue' # <<>>
                     /\ Head(speechQueue').src = "analysis") ]_vars


\* the events of one content-generation call
GenerateOps == {"generate", "generated", "generate_failed"}

\* C21: a content-generation call makes at most max(1, N) attempts with N
\* keys and yields one outcome, the response of its first successful attempt
\* or one error; handleCapture turns the outcome of the analyze call into
\* one stored result or one spoken failure and tries nothing again.
C21_RotationBounded ==
    /\ [](lastEvent.op \in GenerateOps =>
          /\ lastEvent.tried <= (IF lastEvent.keys > 1 THEN lastEvent.keys ELSE 1)
          /\ lastEvent.tried = Len(lastEvent.trail)
          /\ \A j \in 1..(Len(lastEvent.trail) - 1) : lastEvent.trail[j] # "response"
          /\ lastEvent.op = "generated" <=>
                (lastEvent.trail # <<>> /\ lastEvent.trail[Len(lastEvent.trail)] = "response")
          /\ lastEvent.op = "generate" =>
                \A j \in 1..Len(lastEvent.trail) : lastEvent.trail[j] = "quota_error")
    /\ [][ /\ lastEvent.op = "generated" =>
                 \/ lastEvent'.op = "generate" /\ Len(inflight') = 1
                 \/ lastEvent'.op \in ResolveOps /\ inflight' = <<>> /\ analysis'.set
           /\ lastEvent.op = "generate_failed" =>
                 lastEvent'.op = "analysis_failed" /\ inflight' = <<>>
           /\ lastEvent.op \notin GenerateOps => UNCHANGED vars ]_vars

\* every key failed with a quota error: the call gave up after N attempts
C21_Witness ==
    /\ lastEvent.op = "generate_failed"
    /\ lastEvent.keys = MaxKeys
    /\ lastEvent.tried = MaxKeys


C23_NoFrameDataLogged ==
    /\ LoggedEvent.hazard_types = <<>>
    /\ LoggedEvent.hazards_detected = 0


\* C24: the utterance a speak call submits has the rate, pitch and voice that
\* are persisted when speak is called (the defaults when nothing is
\* persisted), the confirmation of a settings change included; and no step
\* changes the settings of an utterance that was submitted before.
C24_SettingsAtSpeakTime ==
    /\ [][ lastEvent'.text # <<>> =>
              /\ speechQueue' # <<>>
              /\ speechQueue'[Len(speechQueue')].settings =
                    (IF speechSettings' = "unset" THEN "default" ELSE speechSettings') ]_vars
    /\ [][ \A j \in 1..Len(speechQueue') :
              \/ j = Len(speechQueue') /\ lastEvent'.text # <<>>
              \/ j <= Len(speechQueue) /\ Len(speechQueue') >= Len(speechQueue)
                    /\ speechQueue'[j].settings = speechQueue[j].settings
              \/ speechQueue' = Tail(speechQueue) ]_vars

\* the confirmation of a change is submitted with the new settings while the
\* settings persisted before were others
C24_Witness ==
    /\ lastEvent.op = "settings"
    /\ speechSettings = "fast"
    /\ speechQueue # <<>>
    /\ speechQueue[Len(speechQueue)].settings = "fast"


\* C25: the speech channel has one caller: every utterance in the queue of
\* speechSynthesis was submitted by speak, so every playing utterance has
\* the onstart and onend handlers that maintain isSpeaking, and the
\* VoiceSettings component neither submits nor cancels on its own.
C25_SingleSpeechCaller ==
    /\ \A j \in 1..Len(speechQueue) : HasHandlers(speechQueue[j])
    /\ lastEvent.op # "test_voice"


\* C26: a deferred capture is not queued: when the interval callback calls
\* handleCapture, at least a full countdown of callbacks has run since the
\* countdown was last set to full (which every callback that finds
\* isSpeaking or isPaused does), and the call leaves the countdown full and
\* starts at most one analysis.
C26_DeferredNotQueued ==
    /\ [](lastEvent.op \in TickOps \ {"tick_defer", "tick_dec"} => lastEvent.n > interval)
    /\ [][ lastEvent'.op = "tick_defer" => sinceFull' = 0 /\ timeLeft' = interval ]_vars
    /\ [][ lastEvent'.op \in TickOps \ {"tick_defer", "tick_dec"} =>
              /\ timeLeft' = interval
              /\ Len(inflight') <= Len(inflight) + 1 ]_vars

\* a capture is triggered after an utterance was spoken and has ended
C26_Witness ==
    /\ lastEvent.op = "capture_sent"
    /\ analysis.set
    /\ speechRef
    /\ speechQueue = <<>>


\* C27: an analysis call in flight is never cancelled: when it returns a
\* result, the hazards and the text of that result (the navigation text in
\* navigation mode, the description otherwise) are in the stored analysis,
\* whatever happened while the call was in flight.
C27_ResultAlwaysApplied ==
    [][ lastEvent'.op \in ResolveOps =>
           \E i \in 1..Len(inflight), f \in Frames :
              /\ inflight' = RemoveAt(inflight, i)
              /\ analysis'.set
              /\ analysis'.hazards = ResultHazards(f, inflight[i].language)
              /\ IF inflight[i].mode = "navigation"
                 THEN analysis'.navigation = NavigationOfFrame(f)
                 ELSE analysis'.description = DescriptionOfFrame(f) ]_vars

\* a result is stored that returned after a voice command was recognised
\* while its call was in flight
C27_Witness ==
    /\ lastEvent.op \in ResolveOps
    /\ lastEvent.commanded
    /\ analysis.set


\* C28: the hazards of a result are empty exactly when the hazard answer is
\* the sentinel NONE; otherwise they are the items of the answer between its
\* commas, trimmed, in order; no hazard is the empty string and none is the
\* sentinel.
C28_HazardListParsed ==
    lastEvent.op = "hazards_parsed" =>
        /\ (lastEvent.output = <<>>) <=> (lastEvent.input = <<"NONE">>)
        /\ \A j \in 1..Len(lastEvent.output) :
              /\ lastEvent.output[j] # <<>>
              /\ lastEvent.output[j] # <<"NONE">>


\* C29: at most one analysis call is in flight: handleCapture starts no
\* analysis while the analysis of an earlier capture has not returned.
C29_OneAnalysisInFlight == Len(inflight) <= 1

\* C30: isCapturing is true exactly while the analysis of a capture is in
\* flight.
C30_CapturingIffInFlight == isCapturing <=> (inflight # <<>>)


\* C31: isSpeaking mirrors the speech channel: it is true exactly while an
\* utterance is playing.
C31_SpeakingMirrorsChannel == isSpeaking <=> Speaking(speechQueue)

\* C32: at most one timer that will set isPaused to false is pending.
C32_OneResumeTimer == Cardinality(timers) <= 1


\* C33: within one key-rotation call no key is attempted twice, and a call
\* that gives up because every attempt failed with a rotatable error has
\* attempted every configured key, also while other calls rotate the index.
C33_EachKeyOnce ==
    lastEvent.op = "shared_rotation" =>
        \A c \in 1..Len(lastEvent.calls) :
            LET tried == lastEvent.calls[c].tried IN
            /\ \A a, b \in 1..Len(tried) : a # b => tried[a] # tried[b]
            /\ lastEvent.calls[c].state = "exhausted" =>
                  \A key \in 0..(lastEvent.keys - 1) : \E a \in 1..Len(tried) : tried[a] = key


\* C34: when an attempt fails with an error that is not classified as a
\* quota, rate-limit or authorization error, or with any error while one key
\* is configured, the call rethrows after that attempt: no further attempt is
\* made and the key index is left as it was.
C34_UnrotatableRethrown ==
    [][ (/\ lastEvent.op = "generate"
         /\ lastEvent'.op \in GenerateOps
         /\ lastEvent'.tried = lastEvent.tried + 1
         /\ lastEvent'.trail[Len(lastEvent'.trail)] # "response"
         /\ (~shouldRotateKey(lastEvent'.error) \/ lastEvent.keys = 1))
        => /\ lastEvent'.op = "generate_failed"
           /\ lastEvent'.geminiKeyIndex = lastEvent.geminiKeyIndex
           /\ lastEvent'.i = lastEvent.i ]_vars

\* the second of three keys answered with an error of another kind: the call
\* gave up with the third key untried
C34_Witness ==
    /\ lastEvent.op = "generate_failed"
    /\ lastEvent.keys = MaxKeys
    /\ lastEvent.trail = <<"quota_error", "other_error">>
    /\ lastEvent.geminiKeyIndex = (lastEvent.start + 1) % lastEvent.keys


\* C35: with N >= 1 keys the key index stays in [0, N); it changes only when
\* an attempt fails with a rotatable error and N > 1, by one step with
\* wrap-around; when an attempt succeeds the index is the key that succeeded;
\* and when a call has failed on all N keys the index is the one it began with.
C35_IndexFollowsCall ==
    /\ [](lastEvent.op = "shared_rotation" =>
            lastEvent.geminiKeyIndex \in 0..(lastEvent.keys - 1))
    /\ [][ lastEvent.op = "shared_rotation" =>
            LET c == lastEvent'.last
                before == lastEvent.calls[c]
                after == lastEvent'.calls[c]
            IN /\ lastEvent'.geminiKeyIndex # lastEvent.geminiKeyIndex =>
                    /\ lastEvent.keys > 1
                    /\ before.state = "awaiting" /\ after.state \in {"loop", "exhausted"}
                    /\ lastEvent'.geminiKeyIndex =
                           (lastEvent.geminiKeyIndex + 1) % lastEvent.keys
               /\ after.state = "returned" =>
                    lastEvent'.geminiKeyIndex = after.tried[Len(after.tried)]
               /\ after.state = "exhausted" =>
                    lastEvent'.geminiKeyIndex = lastEvent.start ]_vars


\* C36: every change of isPaused, isSpeaking, mode or language restarts the
\* countdown at its full value with a new interval, and the interval callback
\* calls handleCapture only after a full countdown of callbacks since then:
\* a mode switch or a language change, by voice or by button, puts the next
\* capture a full period away.
C36_CountdownRestarts ==
    /\ [][ (\/ isPaused' # isPaused
            \/ isSpeaking' # isSpeaking
            \/ mode' # mode
            \/ language' # language)
           => /\ timeLeft' = interval
              /\ tickLeft' = TickPeriod
              /\ sinceFull' = 0 ]_vars
    /\ [][ (lastEvent'.op \in CaptureOps /\ tickLeft' = TickPeriod /\ tickLeft = 0)
           => sinceFull >= interval ]_vars

\* the mode tab was clicked while the first analysis was in flight, and the
\* countdown that had begun to run after that capture is full again
C36_Witness ==
    /\ lastEvent.op = "tab"
    /\ mode = "navigation"
    /\ inflight # <<>>
    /\ timeLeft = interval
    /\ sinceFull = 0


\* C37: analytics initialisation runs at most once per page load: whatever
\* calls of initAnalytics, trackEvent and updateUserProperties are made,
\* also before the initialisation has completed, the page raises the stored
\* visit count by at most one and creates at most one session id and one
\* session-history entry.
C37_InitialisedOnce ==
    lastEvent.op \in AnalyticsOps =>
        /\ lastEvent.awaiting <= 1
        /\ lastEvent.sessionIds <= 1
        /\ lastEvent.pushes <= 1
        /\ StoredVisitCount(lastEvent.storage.visitCount)
              <= StoredVisitCount(lastEvent.loaded.visitCount) + 1
        /\ Len(readSessionHistory(lastEvent.storage.sessionHistory))
              <= Len(readSessionHistory(lastEvent.loaded.sessionHistory)) + 1

\* on a second visit every further call was made while the initialisation
\* was pending, and the initialisation has completed
C37_Witness ==
    /\ lastEvent.op = "init_settled"
    /\ lastEvent.loads = 2
    /\ lastEvent.early = MaxCalls - 1
    /\ lastEvent.sessionIds = 1
    /\ lastEvent.storage.visitCount = <<2>>
    /\ lastEvent.storage.sessionHistory = <<(<<1, 2>>)>>


\* C38 (as stated): once the session of a page load has been created, the
\* stored session history has at most 60 timestamps, they are the start times
\* of the most recent sessions in order, and the last one is the start time
\* of the current session.
C38_HistoryRecent ==
    (lastEvent.op = "init_settled" /\ lastEvent.sessionIds = 1) =>
        LET history == readSessionHistory(lastEvent.storage.sessionHistory)
        IN  /\ Len(history) <= HistoryCap
            /\ history = SliceLast(lastEvent.starts, HistoryCap)
            /\ history # <<>>
            /\ history[Len(history)] = lastEvent.sessionStartTime

\* C38 (amended): the stored session history has at most 60 timestamps; they
\* are the start times of the most recent sessions whose history write
\* localStorage accepted, in the order of the sessions; the last one is the
\* start time of the current session when the write of the current session
\* was accepted, and otherwise the history is the one the page load found.
C38_HistoryOfStoredSessions ==
    lastEvent.op \in AnalyticsOps =>
        LET history == readSessionHistory(lastEvent.storage.sessionHistory)
        IN  /\ Len(history) <= HistoryCap
            /\ history = SliceLast(lastEvent.written, HistoryCap)
            /\ IF lastEvent.pushes = 1
               THEN history[Len(history)] = lastEvent.sessionStartTime
               ELSE lastEvent.storage.sessionHistory = lastEvent.loaded.sessionHistory

\* more sessions than the history keeps: the oldest entry has been dropped
C38_Witness ==
    /\ lastEvent.op = "init_settled"
    /\ lastEvent.pushes = 1
    /\ Len(lastEvent.written) > HistoryCap
    /\ Len(readSessionHistory(lastEvent.storage.sessionHistory)) = HistoryCap
    /\ readSessionHistory(lastEvent.storage.sessionHistory)[1] > 1

=============================================================================
